---- MODULE Spec2Model ----
(***************************************************************************)
(* Model of keeks_elote.backtest.Backtest: the period-by-period driver     *)
(* run_explicit, the opportunity evaluator                                 *)
(* _evaluate_bets_for_next_period and the settlement loop                  *)
(* _execute_bets_for_current_period.                                       *)
(*                                                                         *)
(* Numbers are exact rationals <<n, d>> (d > 0, lowest terms): Python      *)
(* floats are modelled by real arithmetic.  The arena (elote), the         *)
(* strategy (keeks) and the bankroll (keeks) are collaborators outside the *)
(* repository: expected_score and strategy.evaluate answer with any value  *)
(* of a small set or raise; the bankroll behaves as the mock of the test   *)
(* suite (win_bet adds amount * payoff, lose_bet subtracts amount).        *)
(***************************************************************************)
EXTENDS Integers, Sequences, FiniteSets, TLC

\* ------------------------------------------------------------------ bounds
\* Total number of game records in the input mapping.
MaxGames == 2

\* ------------------------------------------------------------- rationals
Abs(x) == IF x < 0 THEN -x ELSE x

\* Each operator binds its arguments to their values once (x \in {a}) before
\* it uses them, so that a nested expression is evaluated a single time.
RECURSIVE GCD(_, _)
GCD(a, b) ==
    CHOOSE g \in { IF y = 0 THEN x ELSE GCD(y, x % y) : x \in {a}, y \in {b} } : TRUE

\* The rational n/d in lowest terms with a positive denominator (d # 0).
Rat(n, d) ==
    CHOOSE r \in { <<((IF y < 0 THEN -1 ELSE 1) * x) \div g,
                     ((IF y < 0 THEN -1 ELSE 1) * y) \div g>> :
                       g \in {GCD(Abs(n), Abs(d))}, x \in {n}, y \in {d} } : TRUE

Zero == <<0, 1>>
One == <<1, 1>>
\* Sums, differences and comparisons go through the least common
\* denominator and products cancel crosswise first, so that no intermediate
\* value is larger than the result needs.
RAddOf(x, y, g) ==
    Rat(x[1] * (y[2] \div g) + y[1] * (x[2] \div g), x[2] * (y[2] \div g))

RAdd(a, b) ==
    CHOOSE r \in { RAddOf(x, y, GCD(x[2], y[2])) : x \in {a}, y \in {b} } : TRUE

RNeg(a) == CHOOSE r \in { <<-x[1], x[2]>> : x \in {a} } : TRUE
RSub(a, b) == RAdd(a, RNeg(b))
RMulOf(x, y, g1, g2) ==
    Rat((x[1] \div g1) * (y[1] \div g2), (x[2] \div g2) * (y[2] \div g1))

RMul(a, b) ==
    CHOOSE r \in { RMulOf(x, y, GCD(Abs(x[1]), y[2]), GCD(Abs(y[1]), x[2])) :
                     x \in {a}, y \in {b} } : TRUE

RLt(a, b) ==
    \E x \in {a}, y \in {b} : \E g \in {GCD(x[2], y[2])} :
        x[1] * (y[2] \div g) < y[1] * (x[2] \div g)
RLe(a, b) ==
    \E x \in {a}, y \in {b} : \E g \in {GCD(x[2], y[2])} :
        x[1] * (y[2] \div g) <= y[1] * (x[2] \div g)

\* ------------------------------------------------------------ odds helper
american_to_decimal_signed(american_odds) ==
    IF american_odds >= 0
    THEN RAdd(Rat(american_odds, 100), One)
    ELSE RAdd(Rat(100, american_odds), One)

\* american_to_decimal: odds >= 0 -> odds/100 + 1, else 100/|odds| + 1.
american_to_decimal(american_odds) ==
    IF american_odds >= 0
    THEN RAdd(Rat(american_odds, 100), One)
    ELSE RAdd(Rat(100, Abs(american_odds)), One)

\* ------------------------------------------------------------ game records
\* A label that game.get("winner") / game.get("loser") reports as None.
NoneLabel == "None"

\* One odds entry of a game dict: the key is absent ("nokey"), present with
\* the value None ("null"), present with American odds v ("val"), or present
\* with a value that is not a number, such as a string ("text").
NoKey == [st |-> "nokey", v |-> 0]
Null == [st |-> "null", v |-> 0]
Odds(x) == [st |-> "val", v |-> x]
Text == [st |-> "text", v |-> 0]

\* `"winner_odds" in game`
HasKey(o) == o.st # "nokey"
\* `game.get("winner_odds") is not None`
NotNone(o) == o.st \in {"val", "text"}
\* american_to_decimal returns for a number and raises TypeError otherwise.
Converts(o) == o.st = "val"

Game(w, l, wo, lo) == [winner |-> w, loser |-> l, winner_odds |-> wo, loser_odds |-> lo]

\* The game records of the period data: a well-formed game with both odds
\* and a game that carries no odds keys (as in the sample data of the tests).
Games ==
    { Game("A", "B", Odds(150), Odds(-200)),
      Game("B", "A", NoKey, NoKey) }

\* Game records for the evaluator: the two above, and records with one odds
\* key absent, with a null odds value on one or both sides, with a missing
\* label.
EvalGames ==
    Games \cup
    { Game("A", "B", NoKey, Odds(150)),
      Game("A", "B", Null, Odds(150)),
      Game("A", "B", Odds(-200), Null),
      Game("A", "B", Null, Null),
      Game(NoneLabel, "B", Odds(150), Odds(-200)),
      Game("A", NoneLabel, Odds(150), Odds(-200)) }

\* ------------------------------------------------------------ the inputs
\* The period keys an input mapping may hold (any subset, so gaps occur).
PeriodKeys == {1, 2, 3}

Range(s) == { s[i] : i \in DOMAIN s }

\* Key orders of the input dict: every sequence of distinct period keys.
\* A dict iterates in insertion order, which need not be increasing.
KeyOrders ==
    { s \in UNION { [1..n -> PeriodKeys] : n \in 0..Cardinality(PeriodKeys) } :
        \A i, j \in DOMAIN s : i # j => s[i] # s[j] }

NonDecreasing(f) == \A i, j \in DOMAIN f : i <= j => f[i] <= f[j]

RECURSIVE Block(_, _, _, _)
\* The games of `flat` assigned to position j, in their order in `flat`.
Block(flat, asg, j, i) ==
    IF i > Len(flat) THEN <<>>
    ELSE (IF asg[i] = j THEN <<flat[i]>> ELSE <<>>) \o Block(flat, asg, j, i + 1)

\* Position of key k in the key order.
PosOf(keys, k) == CHOOSE i \in DOMAIN keys : keys[i] = k

\* Starting funds and bettable share of the bankroll handed to run_explicit.
InitialFunds == <<100, 1>>
BettableShares == { <<1, 2>> }

\* Values of period_to_start_betting: one or two dry-run periods.
Thresholds == {1, 2}

\* Answers of the collaborators: arena.expected_score returns a probability,
\* strategy.evaluate a fraction (0: no bet, above 1: more than is available).
Probabilities == { <<2, 5>>, <<1, 2>>, <<3, 5>> }
Fractions == { Zero, <<1, 2>>, <<3, 2>> }
\* ok = FALSE: the call raised.
Answer(v) == [ok |-> TRUE, v |-> v]
Raised == [ok |-> FALSE, v |-> Zero]
StakeAnswers == { Answer(f) : f \in Fractions }

\* The collaborators handed to the run.  Free: every call answers with any
\* value of the sets above.  Fixed: a deterministic arena, whose
\* expected_score is predict[1] before the first tournament call and
\* predict[2] after it, and a deterministic strategy, whose evaluate is the
\* function stake of the probability.
Free == [det |-> FALSE, predict |-> <<>>, stake |-> <<>>]
Fixed(predict, stake) == [det |-> TRUE, predict |-> predict, stake |-> stake]

\* ------------------------------------------------------------- the state
VARIABLES
    data_keys,      \* keys of `data` in iteration order (data.items())
    data_games,     \* data[k]: the list of games of period k
    period_to_start_betting,
    percent_bettable,   \* bankroll.percent_bettable
    oracle,         \* how the arena and the strategy answer (see Free, Fixed)
    total_funds,        \* bankroll.total_funds
    pc,             \* "loop", a step of the loop body, "done" or "raised"
    idx,            \* number of periods taken from data.items() so far
    week_no,        \* loop variable of run_explicit
    gi,             \* index of the next game of next_period_games
    bi,             \* index of the next bet of bets_to_execute
    bets_calculated_prev_period,
    current_period_bets_to_execute,
    bets_calculated_this_period,
    tournament_calls,   \* batches passed to arena.tournament, in call order
    visited,        \* history: the values week_no has taken, in order
    advanced,       \* history: periods whose outcomes reached the arena
    pricings,       \* history: (period priced, periods the arena had seen)
    calls,          \* history: names of the collaborator calls of this iteration
    last_eval,      \* history: the latest pass of the evaluation loop
    settle_log,     \* history: one entry per bet this iteration handled
    settled,        \* history: every bet handed to settlement in the run
    funds_at_start, \* history: total_funds when this iteration began
    earlier_runs,   \* history: what the earlier runs of this behaviour returned
    modes           \* history: the branch each iteration took, "dry" or "betting"

vars == <<data_keys, data_games, period_to_start_betting, percent_bettable,
          total_funds, pc, idx, week_no, gi, bi, bets_calculated_prev_period,
          current_period_bets_to_execute, bets_calculated_this_period,
          tournament_calls, visited, advanced, pricings, calls, last_eval,
          settle_log, settled, funds_at_start, oracle, earlier_runs, modes>>

inputs == <<data_keys, data_games, period_to_start_betting, percent_bettable,
            oracle>>

prepare_data_but_last(keys) == SubSeq(keys, 1, Len(keys) - 1)

\* prepare_data returns its argument unchanged (no sorting, no copy).
prepare_data(keys) == keys

\* data.get(k, [])
DataGet(k) == IF k \in DOMAIN data_games THEN data_games[k] ELSE <<>>

\* The games of the period being processed, taken as the games to price.
next_period_games_current == DataGet(week_no)

\* `games` and `next_period_games` of the current iteration.
games == DataGet(week_no)
next_period_games == DataGet(week_no + 1)

NoEval == [game |-> 0, calls |-> <<>>, bets |-> <<>>]

\* The locals of run_explicit and the histories, on entry.
InitLocals ==
    /\ pc = "loop"
    /\ idx = 0
    /\ week_no = 0
    /\ gi = 1
    /\ bi = 1
    /\ bets_calculated_prev_period = <<>>
    /\ current_period_bets_to_execute = <<>>
    /\ bets_calculated_this_period = <<>>
    /\ tournament_calls = <<>>
    /\ visited = <<>>
    /\ advanced = <<>>
    /\ pricings = {}
    /\ calls = <<>>
    /\ last_eval = NoEval
    /\ settle_log = <<>>
    /\ settled = <<>>
    /\ modes = <<>>

\* Everything but the input mapping, on entry to run_explicit.
InitRun ==
    /\ period_to_start_betting \in Thresholds
    /\ percent_bettable \in BettableShares
    /\ total_funds = InitialFunds
    /\ funds_at_start = InitialFunds
    /\ oracle = Free
    /\ earlier_runs = <<>>
    /\ InitLocals

\* State on entry to run_explicit: any mapping of at most MaxGames games
\* over distinct keys of PeriodKeys, in any key order.
Init ==
    /\ \E keys \in KeyOrders, n \in 0..MaxGames :
         \E flat \in [1..n -> Games], asg \in [1..n -> 1..Len(keys)] :
            /\ NonDecreasing(asg)
            /\ data_keys = prepare_data(keys)
            /\ data_games = [k \in Range(keys) |-> Block(flat, asg, PosOf(keys, k), 1)]
    /\ InitRun

\* Entry to run_explicit for the evaluator: an empty period 1 followed by a
\* period 2 of at most MaxGames game records of any shape.
InitEval ==
    /\ \E n \in 0..MaxGames : \E gs \in [1..n -> EvalGames] :
            /\ data_keys = prepare_data(<<1, 2>>)
            /\ data_games = (1 :> <<>>) @@ (2 :> gs)
    /\ InitRun

\* ------------------------------------------------------- the loop body
\* The statements of the body of `for week_no, games in data.items()`, in
\* program order: evaluate next period's bets, execute the carried bets,
\* update the arena (and store the new bets).
LoopBodySettleFirst == <<"execute", "evaluate", "advance">>

LoopBody == <<"evaluate", "execute", "advance">>

\* The step that follows step s; back to the loop head after the last one.
NextStep(s) ==
    LET i == CHOOSE j \in DOMAIN LoopBody : LoopBody[j] = s
    IN  IF i = Len(LoopBody) THEN "loop" ELSE LoopBody[i + 1]

\* for week_no, games in data.items(): take the next key.
StartPeriod ==
    /\ pc = "loop"
    /\ idx < Len(data_keys)
    /\ idx' = idx + 1
    /\ week_no' = data_keys[idx + 1]
    /\ visited' = Append(visited, data_keys[idx + 1])
    /\ current_period_bets_to_execute' = bets_calculated_prev_period
    /\ bets_calculated_this_period' = <<>>
    /\ gi' = 1
    /\ bi' = 1
    /\ calls' = <<>>
    /\ last_eval' = NoEval
    /\ settle_log' = <<>>
    /\ funds_at_start' = total_funds
    /\ pc' = LoopBody[1]
    /\ UNCHANGED <<inputs, earlier_runs, modes, total_funds, bets_calculated_prev_period,
                   tournament_calls, advanced, pricings, settled>>

\* The loop is exhausted: return bankroll.
Finish ==
    /\ pc = "loop"
    /\ idx = Len(data_keys)
    /\ pc' = "done"
    /\ UNCHANGED <<inputs, earlier_runs, modes, visited, total_funds, idx, week_no, gi, bi,
                   bets_calculated_prev_period, current_period_bets_to_execute,
                   bets_calculated_this_period, tournament_calls, advanced,
                   pricings, calls, last_eval, settle_log, settled, funds_at_start>>

\* ------------------------------------- _evaluate_bets_for_next_period
GameHasOddsAlways(game) == TRUE

\* `"winner_odds" in game and "loser_odds" in game`
GameHasOdds(game) == HasKey(game.winner_odds) /\ HasKey(game.loser_odds)

\* `winner_label is None or loser_label is None`
LabelsMissing(game) == game.winner = NoneLabel \/ game.loser = NoneLabel

\* `if winner_odds_american is not None` / `if loser_odds_american is not None`
SideHasOdds(o) == NotNone(o)

ShouldBetNonNegative(fraction) == RLe(Zero, fraction)

\* `if bet_fraction_winner > 0` / `if bet_fraction_loser > 0`
ShouldBet(fraction) == RLt(Zero, fraction)

\* The same dict with the fraction scaled by the balance (per 100 units).
BetOfBalance(label, opponent, fraction, odds, actual) ==
    [label |-> label, opponent |-> opponent,
     fraction |-> RMul(fraction, RMul(total_funds, <<1, 100>>)),
     payoff |-> RSub(american_to_decimal(odds), One), loss |-> One,
     actual_outcome |-> actual,
     period |-> week_no + 1, iter |-> idx, game |-> gi]

\* The dict appended to bets_calculated for one side.  period, iter and game
\* are history fields (the period whose games are priced, the iteration and
\* the game the bet comes from); the code does not store them.
Bet(label, opponent, fraction, odds, actual) ==
    [label |-> label, opponent |-> opponent, fraction |-> fraction,
     payoff |-> RSub(american_to_decimal(odds), One), loss |-> One,
     actual_outcome |-> actual,
     period |-> week_no + 1, iter |-> idx, game |-> gi]

\* The bets one side of a game adds: none when the side has no odds, when
\* american_to_decimal or strategy.evaluate raised (caught) or when the
\* fraction is not positive.
SideBets(label, opponent, o, out, actual) ==
    IF SideHasOdds(o) /\ Converts(o) /\ out.ok /\ ShouldBet(out.v)
    THEN <<Bet(label, opponent, out.v, o.v, actual)>>
    ELSE <<>>

\* One collaborator call of the evaluator, as the history records it: the
\* arguments, whether it returned (ok) and what it returned (ret).
Call(fn, a, b, x, ok, ret) ==
    [fn |-> fn, a |-> a, b |-> b, x |-> x, ok |-> ok, ret |-> ret]

\* The strategy.evaluate(probability = p) call of one side, if it is made.
SideCalls(label, o, p, out) ==
    IF SideHasOdds(o) /\ Converts(o)
    THEN <<Call("evaluate", label, "", p, out.ok, out.v)>>
    ELSE <<>>

\* The try block of one side raised: in american_to_decimal or in
\* strategy.evaluate.
SideRaised(o, out) == SideHasOdds(o) /\ (~Converts(o) \/ ~out.ok)

\* The places where a collaborator can raise: "predict"
\* (calculate_probabilities), "side" (the try block of one side of a game),
\* "settle" (the try block of one bet) and "advance" (arena.tournament).
\* Only the two try blocks catch.
GuardedSettleOnly(site) == site = "settle"

GuardedSideOnly(site) == site = "side"

GuardedEverywhere(site) == TRUE

Guarded(site) == site \in {"side", "settle"}

\* The state of the arena a deterministic expected_score depends on.
ArenaState == IF tournament_calls = <<>> THEN 1 ELSE 2

\* What arena.expected_score may return now.
PredictAnswers ==
    IF oracle.det THEN { oracle.predict[ArenaState] } ELSE Probabilities

\* What strategy.evaluate(probability = p) may answer: the one answer of a
\* deterministic strategy, or any of `answers`.
SideAnswers(answers, p) ==
    IF oracle.det THEN { Answer(oracle.stake[p]) } ELSE answers

\* The function names of a sequence of calls.
RECURSIVE Names(_)
Names(cs) == IF cs = <<>> THEN <<>> ELSE <<Head(cs).fn>> \o Names(Tail(cs))

\* One pass of `for game in next_period_games` that skips the game.
SkipGame ==
    /\ pc = "evaluate"
    /\ gi <= Len(next_period_games)
    /\ LET game == next_period_games[gi]
       IN  ~(GameHasOdds(game) /\ ~LabelsMissing(game))
    /\ last_eval' = [game |-> gi, calls |-> <<>>, bets |-> <<>>]
    /\ gi' = gi + 1
    /\ UNCHANGED <<inputs, earlier_runs, modes, visited, total_funds, pc, idx, week_no, bi,
                   bets_calculated_prev_period, current_period_bets_to_execute,
                   bets_calculated_this_period, tournament_calls, advanced,
                   pricings, calls, settle_log, settled, funds_at_start>>

\* One pass of `for game in next_period_games` that prices the game:
\* calculate_probabilities, then each side under its own try/except, with
\* strategy.evaluate answering from `answers`.
EvaluateWith(answers) ==
    /\ pc = "evaluate"
    /\ gi <= Len(next_period_games)
    /\ LET game == next_period_games[gi]
       IN  /\ GameHasOdds(game)
           /\ ~LabelsMissing(game)
           /\ \E prob_winner_wins \in PredictAnswers :
              \E fw \in SideAnswers(answers, prob_winner_wins),
                 fl \in SideAnswers(answers, RSub(One, prob_winner_wins)) :
                 LET prob_loser_wins == RSub(One, prob_winner_wins)
                     cs == <<Call("expected_score", game.winner, game.loser, Zero,
                                  TRUE, prob_winner_wins)>>
                           \o SideCalls(game.winner, game.winner_odds, prob_winner_wins, fw)
                           \o SideCalls(game.loser, game.loser_odds, prob_loser_wins, fl)
                     bs == SideBets(game.winner, game.loser, game.winner_odds, fw, TRUE)
                           \o SideBets(game.loser, game.winner, game.loser_odds, fl, FALSE)
                     escapes == /\ ~Guarded("side")
                                /\ \/ SideRaised(game.winner_odds, fw)
                                   \/ SideRaised(game.loser_odds, fl)
                 IN  /\ bets_calculated_this_period' = bets_calculated_this_period \o bs
                     /\ calls' = calls \o Names(cs)
                     /\ last_eval' = [game |-> gi, calls |-> cs, bets |-> bs]
                     /\ pc' = IF escapes THEN "raised" ELSE pc
    /\ pricings' = pricings \cup { [period |-> week_no + 1, seen |-> Range(advanced)] }
    /\ gi' = gi + 1
    /\ UNCHANGED <<inputs, earlier_runs, modes, visited, total_funds, idx, week_no, bi,
                   bets_calculated_prev_period, current_period_bets_to_execute,
                   tournament_calls, advanced, settle_log, settled, funds_at_start>>

EvaluateGame == EvaluateWith(StakeAnswers)

\* `return bets_calculated`
EvaluateDone ==
    /\ pc = "evaluate"
    /\ gi > Len(next_period_games)
    /\ last_eval' = NoEval
    /\ pc' = NextStep("evaluate")
    /\ UNCHANGED <<inputs, earlier_runs, modes, visited, total_funds, idx, week_no, gi, bi,
                   bets_calculated_prev_period, current_period_bets_to_execute,
                   bets_calculated_this_period, tournament_calls, advanced,
                   pricings, calls, settle_log, settled, funds_at_start>>

\* ----------------------------------- _execute_bets_for_current_period
is_betting_period_from(week, start) == week >= start

\* `is_betting_period = week_no > period_to_start_betting`
is_betting_period(week, start) == week > start

available_at_start(funds, share) == RMul(funds_at_start, share)

\* `available_to_bet = bankroll.total_funds * bankroll.percent_bettable`
available_to_bet(funds, share) == RMul(funds, share)

\* `bet_amount = available_to_bet * bet["fraction"]`
bet_amount(available, fraction) == RMul(available, fraction)

BetIsPlacedUncapped(amount, available) == RLt(Zero, amount)

\* `if bet_amount > 0 and bet_amount <= available_to_bet`
BetIsPlaced(amount, available) == RLt(Zero, amount) /\ RLe(amount, available)

LedgerCallDecimalOdds(bet, amount) ==
    IF bet.actual_outcome
    THEN [fn |-> "win_bet", amount |-> amount, payoff |-> RAdd(bet.payoff, One), ok |-> TRUE]
    ELSE [fn |-> "lose_bet", amount |-> amount, payoff |-> Zero, ok |-> TRUE]

\* `if bet["actual_outcome"]`: the ledger call a placed bet makes.
LedgerCall(bet, amount) ==
    IF bet.actual_outcome
    THEN [fn |-> "win_bet", amount |-> amount, payoff |-> bet.payoff, ok |-> TRUE]
    ELSE [fn |-> "lose_bet", amount |-> amount, payoff |-> Zero, ok |-> TRUE]

NoCall == [fn |-> "none", amount |-> Zero, payoff |-> Zero, ok |-> TRUE]

\* The same call, raising instead of returning.
Raising(c) == [c EXCEPT !.ok = FALSE]

\* The bankroll of the test suite: win_bet adds amount * payoff to
\* total_funds, lose_bet subtracts amount; a call that raises changes
\* nothing.
ApplyLedger(funds, c) ==
    IF ~c.ok THEN funds
    ELSE IF c.fn = "win_bet" THEN RAdd(funds, RMul(c.amount, c.payoff))
    ELSE IF c.fn = "lose_bet" THEN RSub(funds, c.amount)
    ELSE funds

\* The entry the history keeps for one handled bet.
Settlement(bet, before, available, amount, c, after) ==
    [bet |-> bet, before |-> before, available |-> available, amount |-> amount,
     fn |-> c.fn, arg_amount |-> c.amount, arg_payoff |-> c.payoff, ok |-> c.ok,
     after |-> after]

\* The entry the run-long history keeps for one handled bet.
Handled(bet) ==
    [iter |-> bet.iter, game |-> bet.game, side |-> bet.actual_outcome,
     period |-> bet.period, at_iter |-> idx, at_week |-> week_no]

\* The dry-run branch: the carried bets are not executed.
DryRun ==
    /\ pc = "execute"
    /\ ~is_betting_period(week_no, period_to_start_betting)
    /\ pc' = NextStep("execute")
    /\ modes' = Append(modes, "dry")
    /\ UNCHANGED <<inputs, earlier_runs, visited, total_funds, idx, week_no, gi, bi,
                   bets_calculated_prev_period, current_period_bets_to_execute,
                   bets_calculated_this_period, tournament_calls, advanced,
                   pricings, calls, last_eval, settle_log, settled, funds_at_start>>

\* One pass of `for bet in bets_to_execute`; each local of the pass is the
\* one value of its expression.
ExecuteBet ==
    /\ pc = "execute"
    /\ is_betting_period(week_no, period_to_start_betting)
    /\ bi <= Len(current_period_bets_to_execute)
    /\ \E bet \in { current_period_bets_to_execute[bi] } :
       \E available \in { available_to_bet(total_funds, percent_bettable) } :
       \E amount \in { bet_amount(available, bet.fraction) } :
       \E c \in { IF BetIsPlaced(amount, available)
                  THEN LedgerCall(bet, amount) ELSE NoCall } :
       \E after \in { ApplyLedger(total_funds, c) } :
           /\ total_funds' = after
           /\ calls' = IF c.fn = "none" THEN calls ELSE Append(calls, c.fn)
           /\ settle_log' = Append(settle_log,
                  Settlement(bet, total_funds, available, amount, c, after))
           /\ settled' = Append(settled, Handled(bet))
    /\ bi' = bi + 1
    /\ UNCHANGED <<inputs, earlier_runs, modes, visited, pc, idx, week_no, gi, bets_calculated_prev_period,
                   current_period_bets_to_execute, bets_calculated_this_period,
                   tournament_calls, advanced, pricings, last_eval, funds_at_start>>

\* The settlement loop is over.
ExecuteDone ==
    /\ pc = "execute"
    /\ is_betting_period(week_no, period_to_start_betting)
    /\ bi > Len(current_period_bets_to_execute)
    /\ pc' = NextStep("execute")
    /\ modes' = Append(modes, "betting")
    /\ UNCHANGED <<inputs, earlier_runs, visited, total_funds, idx, week_no, gi, bi,
                   bets_calculated_prev_period, current_period_bets_to_execute,
                   bets_calculated_this_period, tournament_calls, advanced,
                   pricings, calls, last_eval, settle_log, settled, funds_at_start>>

\* ------------------------------------------------------ the arena update
\* The pairs of the games that have both labels.
MatchupsLabelled(gs) ==
    LET ok == SelectSeq(gs, LAMBDA g : ~LabelsMissing(g))
    IN  [i \in 1..Len(ok) |-> <<ok[i].winner, ok[i].loser>>]

MatchupsLoserFirst(gs) == [i \in 1..Len(gs) |-> <<gs[i].loser, gs[i].winner>>]

\* `matchups = [(x.get("winner"), x.get("loser")) for x in games]`
Matchups(gs) == [i \in 1..Len(gs) |-> <<gs[i].winner, gs[i].loser>>]

HasMatchupsAlways(matchups) == TRUE

\* `if matchups:`
HasMatchups(matchups) == matchups # <<>>

\* `if matchups: self._arena.tournament(matchups)`, then
\* `bets_calculated_prev_period = bets_calculated_this_period`.
UpdateArena ==
    /\ pc = "advance"
    /\ LET matchups == Matchups(games)
       IN  IF HasMatchups(matchups)
           THEN /\ tournament_calls' = Append(tournament_calls, matchups)
                /\ advanced' = Append(advanced, week_no)
                /\ calls' = Append(calls, "tournament")
           ELSE UNCHANGED <<tournament_calls, advanced, calls>>
    /\ bets_calculated_prev_period' = bets_calculated_this_period
    /\ pc' = NextStep("advance")
    /\ UNCHANGED <<inputs, earlier_runs, modes, visited, total_funds, idx, week_no, gi, bi,
                   current_period_bets_to_execute, bets_calculated_this_period,
                   pricings, last_eval, settle_log, settled, funds_at_start>>

\* ------------------------------------------------------ the specifications
Next ==
    \/ StartPeriod
    \/ Finish
    \/ SkipGame
    \/ EvaluateGame
    \/ EvaluateDone
    \/ DryRun
    \/ ExecuteBet
    \/ ExecuteDone
    \/ UpdateArena

\* run_explicit over any input mapping.
Spec == Init /\ [][Next]_vars

\* run_explicit over game records of any shape.
SpecEval == InitEval /\ [][Next]_vars

\* ------------------------------------------------------------ the claims
IsPrefix(a, b) == Len(a) <= Len(b) /\ \A i \in DOMAIN a : a[i] = b[i]

Increasing(seq) == \A i, j \in DOMAIN seq : i < j => seq[i] < seq[j]

\* The keys of the input mapping in increasing order.
RECURSIVE SortedSeq(_)
SortedSeq(S) ==
    IF S = {} THEN <<>>
    ELSE LET m == CHOOSE x \in S : \A y \in S : x <= y
         IN  <<m>> \o SortedSeq(S \ {m})

HasGames(k) == data_games[k] # <<>>

\* The batches of the periods of `keys` that have a game, in that order.
Batches(keys) ==
    LET ks == SelectSeq(keys, HasGames)
    IN  [i \in 1..Len(ks) |-> Matchups(data_games[ks[i]])]

\* C1: whenever a game of period p+1 is priced, the arena has been advanced
\* only with periods strictly earlier than p (not with p, p+1 or later).
C1_OneStaleness ==
    \A r \in pricings : \A q \in r.seen : q < r.period - 1

\* The same on mappings whose keys iterate in increasing order.
C1_OneStalenessIfSorted == Increasing(data_keys) => C1_OneStaleness

\* C2: arena.tournament is called once per period that has a game, with that
\* period's pairs, in increasing period order: the calls made so far are a
\* prefix of that list, and the whole list once the run has returned.
C2_AdvanceInPeriodOrder ==
    LET expected == Batches(SortedSeq(Range(data_keys)))
    IN  /\ IsPrefix(tournament_calls, expected)
        /\ pc = "done" => tournament_calls = expected

\* The same in the order the periods are visited.
C2_AdvanceInVisitOrder ==
    /\ IsPrefix(tournament_calls, Batches(data_keys))
    /\ pc = "done" => tournament_calls = Batches(data_keys)

\* The step of the loop body a collaborator call belongs to.
StepOf(fn) ==
    IF fn \in {"expected_score", "evaluate"} THEN "evaluate"
    ELSE IF fn \in {"win_bet", "lose_bet"} THEN "settle"
    ELSE "advance"

\* The calls of the current iteration come step by step in the order `order`.
CallsFollow(order) ==
    \A i, j \in DOMAIN calls :
        i < j => \E m, n \in DOMAIN order :
                    /\ m <= n
                    /\ order[m] = StepOf(calls[i])
                    /\ order[n] = StepOf(calls[j])

\* C3 as claimed: within an iteration the ledger calls come first, then the
\* expected_score / strategy.evaluate calls, then arena.tournament.
C3_SettleEvaluateAdvance == CallsFollow(<<"settle", "evaluate", "advance">>)

\* C3 amended: within an iteration the expected_score / strategy.evaluate
\* calls come first, then the ledger calls, then arena.tournament.
C3_EvaluateSettleAdvance == CallsFollow(<<"evaluate", "settle", "advance">>)

\* An iteration that priced a game, settled a bet and advanced the arena.
C3_Witness ==
    /\ \E i \in DOMAIN calls : StepOf(calls[i]) = "evaluate"
    /\ \E i \in DOMAIN calls : StepOf(calls[i]) = "settle"
    /\ \E i \in DOMAIN calls : StepOf(calls[i]) = "advance"

\* The execute step of the current iteration is over.
ExecuteOver == idx > 0 /\ pc \in {"advance", "loop", "done"}

\* C4: in a period p <= period_to_start_betting nothing is settled and the
\* balance stays what it was when the iteration began; in a period
\* p > period_to_start_betting the bets carried from the previous iteration,
\* all of them and in their order, are the ones handed to settlement.
C4_WarmUpRule ==
    /\ (idx > 0 /\ week_no <= period_to_start_betting) =>
          /\ settle_log = <<>>
          /\ total_funds = funds_at_start
          /\ \A i \in DOMAIN calls : StepOf(calls[i]) # "settle"
    /\ (ExecuteOver /\ week_no > period_to_start_betting) =>
          /\ Len(settle_log) = Len(current_period_bets_to_execute)
          /\ \A k \in DOMAIN settle_log :
                /\ settle_log[k].bet = current_period_bets_to_execute[k]
                /\ settle_log[k].bet.iter = idx - 1

\* A dry-run period, on a mapping in increasing key order, that drops bets
\* carried from the previous iteration.
C4_Witness ==
    /\ Increasing(data_keys)
    /\ ExecuteOver
    /\ week_no <= period_to_start_betting
    /\ current_period_bets_to_execute # <<>>

\* C5: a bet handed to settlement while period p is processed was made in
\* the iteration just before and prices a game of period p; no bet is
\* handed to settlement twice.
C5_WagerLifecycle ==
    /\ \A i \in DOMAIN settled :
          /\ settled[i].at_iter = settled[i].iter + 1
          /\ settled[i].period = settled[i].at_week
    /\ \A i, j \in DOMAIN settled :
          i # j => <<settled[i].iter, settled[i].game, settled[i].side>>
                   # <<settled[j].iter, settled[j].game, settled[j].side>>

\* The same on mappings whose keys iterate in increasing order.
C5_WagerLifecycleIfSorted == Increasing(data_keys) => C5_WagerLifecycle

\* C9: the periods are visited in strictly increasing key order.
C9_IncreasingKeyOrder == Increasing(visited)

\* What the loop does: it visits the keys in the order the mapping yields.
C9_MappingOrder == visited = SubSeq(data_keys, 1, idx)

\* The stake of a handled bet, from the balance read just before it.
StakeOf(e) == RMul(RMul(e.before, percent_bettable), e.bet.fraction)

\* The stake of a handled bet lies in (0, balance * percent_bettable].
StakeInRange(e) ==
    /\ RLt(Zero, StakeOf(e))
    /\ RLe(StakeOf(e), RMul(e.before, percent_bettable))

IsLedgerCall(fn) == fn \in {"win_bet", "lose_bet"}
IsPlaced(e) == IsLedgerCall(e.fn)

\* C6: every bet handed to settlement has a fraction > 0; a bet whose stake
\* lies in (0, balance * percent_bettable] reaches the ledger with exactly
\* that stake, any other bet makes no ledger call and leaves the balance
\* alone; the ledger sees as many calls as bets were placed.
C6_StakeGuard ==
    /\ \A k \in DOMAIN current_period_bets_to_execute :
          RLt(Zero, current_period_bets_to_execute[k].fraction)
    /\ \A k \in DOMAIN settle_log :
          LET e == settle_log[k]
          IN  /\ RLt(Zero, e.bet.fraction)
              /\ StakeInRange(e) => IsPlaced(e) /\ e.arg_amount = StakeOf(e)
              /\ ~StakeInRange(e) => e.fn = "none" /\ e.after = e.before
              /\ IsPlaced(e) =>
                    /\ RLt(Zero, e.arg_amount)
                    /\ RLe(e.arg_amount, RMul(e.before, percent_bettable))
    /\ Len(SelectSeq(calls, IsLedgerCall)) = Len(SelectSeq(settle_log, IsPlaced))

\* A batch with a bet that was placed and a bet that the guard skipped.
C6_Witness ==
    /\ \E k \in DOMAIN settle_log : IsPlaced(settle_log[k])
    /\ \E k \in DOMAIN settle_log : ~StakeInRange(settle_log[k])

\* C7: the bets of a batch are handled in the order they were produced (by
\* game, the winner side of a game before its loser side), and the stake of
\* the k-th is fraction_k * balance * percent_bettable with the balance left
\* by the k-1 bets before it.
C7_SequentialCompounding ==
    /\ \A i, j \in DOMAIN current_period_bets_to_execute :
          LET a == current_period_bets_to_execute[i]
              b == current_period_bets_to_execute[j]
          IN  i < j => \/ a.game < b.game
                       \/ a.game = b.game /\ a.actual_outcome /\ ~b.actual_outcome
    /\ \A k \in DOMAIN settle_log :
          LET e == settle_log[k]
              balance == IF k = 1 THEN funds_at_start ELSE settle_log[k - 1].after
          IN  /\ e.bet = current_period_bets_to_execute[k]
              /\ e.before = balance
              /\ e.amount = RMul(RMul(e.bet.fraction, balance), percent_bettable)
              /\ IsPlaced(e) => e.arg_amount = e.amount

\* A bet of the second game of a batch placed from a balance that earlier
\* bets of the batch changed.
C7_Witness ==
    \E j, k \in DOMAIN settle_log :
        /\ j < k
        /\ settle_log[j].bet.game = 1
        /\ IsPlaced(settle_log[j])
        /\ settle_log[k].bet.game = 2
        /\ IsPlaced(settle_log[k])
        /\ settle_log[k].before # funds_at_start

\* The game a bet prices, and the profit multiplier (decimal odds - 1) of
\* the odds o.
GameOf(bet) == data_games[bet.period][bet.game]
Profit(o) == IF o.v >= 0 THEN Rat(o.v, 100) ELSE Rat(100, -o.v)

\* C8: a placed bet on the label that won makes one win_bet(stake, decimal
\* odds - 1) call and the balance grows by stake * (decimal odds - 1); a
\* placed bet on the label that lost makes one lose_bet(stake) call and the
\* balance drops by stake; the ledger calls are these, in this order.
C8_SettlementRule ==
    /\ \A k \in DOMAIN settle_log :
          LET e == settle_log[k]
              g == GameOf(e.bet)
          IN  StakeInRange(e) =>
                 IF e.bet.label = g.winner
                 THEN /\ e.fn = "win_bet"
                      /\ e.arg_amount = StakeOf(e)
                      /\ e.arg_payoff = Profit(g.winner_odds)
                      /\ e.after = RAdd(e.before, RMul(StakeOf(e), Profit(g.winner_odds)))
                 ELSE /\ e.fn = "lose_bet"
                      /\ e.arg_amount = StakeOf(e)
                      /\ e.after = RSub(e.before, StakeOf(e))
    /\ LET placed == SelectSeq(settle_log, IsPlaced)
           made == SelectSeq(calls, IsLedgerCall)
       IN  /\ Len(made) = Len(placed)
           /\ \A i \in DOMAIN made : made[i] = placed[i].fn

\* A batch that settled a winning bet and a losing bet.
C8_Witness ==
    /\ \E k \in DOMAIN settle_log : settle_log[k].fn = "win_bet"
    /\ \E k \in DOMAIN settle_log : settle_log[k].fn = "lose_bet"

\* The odds of a side are absent: no key, or a null value.
OddsAbsent(o) == o.st \in {"nokey", "null"}
OddsKeyMissing(o) == o.st = "nokey"
LabelMissing(g) == g.winner = NoneLabel \/ g.loser = NoneLabel

\* The latest pass of the evaluation loop called nothing, added no bet and
\* went on to the next game.
PassSkipped ==
    /\ last_eval.calls = <<>>
    /\ last_eval.bets = <<>>
    /\ pc = "evaluate"
    /\ gi = last_eval.game + 1

\* The odds of the side of game g that the label backs.
SideOdds(g, label) == IF label = g.winner THEN g.winner_odds ELSE g.loser_odds

PredictRaises ==
    /\ pc = "evaluate"
    /\ gi <= Len(next_period_games)
    /\ LET game == next_period_games[gi]
       IN  /\ GameHasOdds(game)
           /\ ~LabelsMissing(game)
           /\ calls' = Append(calls, "expected_score")
           /\ last_eval' = [game |-> gi,
                            calls |-> <<Call("expected_score", game.winner,
                                             game.loser, Zero, FALSE, Zero)>>,
                            bets |-> <<>>]
    /\ IF Guarded("predict")
       THEN pc' = pc /\ gi' = gi + 1
       ELSE pc' = "raised" /\ gi' = gi
    /\ UNCHANGED <<inputs, earlier_runs, modes, visited, total_funds, idx, week_no, bi,
                   bets_calculated_prev_period, current_period_bets_to_execute,
                   bets_calculated_this_period, tournament_calls, advanced,
                   pricings, settle_log, settled, funds_at_start>>

\* A pass that prices the game, where american_to_decimal raises on odds
\* that are not a number and strategy.evaluate may raise.
\* strategy.evaluate returns a fraction or raises.
FaultyAnswers == StakeAnswers \cup {Raised}

EvaluateGameFaulty == EvaluateWith(FaultyAnswers)

\* One pass of `for bet in bets_to_execute` in which win_bet / lose_bet raises.
ExecuteBetRaises ==
    /\ pc = "execute"
    /\ is_betting_period(week_no, period_to_start_betting)
    /\ bi <= Len(current_period_bets_to_execute)
    /\ \E bet \in { current_period_bets_to_execute[bi] } :
       \E available \in { available_to_bet(total_funds, percent_bettable) } :
       \E amount \in { bet_amount(available, bet.fraction) } :
       \E c \in { Raising(LedgerCall(bet, amount)) } :
       \E after \in { ApplyLedger(total_funds, c) } :
           /\ BetIsPlaced(amount, available)
           /\ total_funds' = after
           /\ calls' = Append(calls, c.fn)
           /\ settle_log' = Append(settle_log,
                  Settlement(bet, total_funds, available, amount, c, after))
           /\ settled' = Append(settled, Handled(bet))
    /\ IF Guarded("settle")
       THEN pc' = pc /\ bi' = bi + 1
       ELSE pc' = "raised" /\ bi' = bi
    /\ UNCHANGED <<inputs, earlier_runs, modes, visited, idx, week_no, gi,
                   bets_calculated_prev_period, current_period_bets_to_execute,
                   bets_calculated_this_period, tournament_calls, advanced,
                   pricings, last_eval, funds_at_start>>

\* `self._arena.tournament(matchups)` raises: no try block surrounds the
\* call, the carry of line 212 is not reached.
UpdateArenaRaises ==
    /\ pc = "advance"
    /\ HasMatchups(Matchups(games))
    /\ tournament_calls' = Append(tournament_calls, Matchups(games))
    /\ calls' = Append(calls, "tournament")
    /\ IF Guarded("advance")
       THEN /\ bets_calculated_prev_period' = bets_calculated_this_period
            /\ pc' = NextStep("advance")
       ELSE /\ UNCHANGED bets_calculated_prev_period
            /\ pc' = "raised"
    /\ UNCHANGED <<inputs, earlier_runs, modes, visited, total_funds, idx, week_no, gi, bi,
                   current_period_bets_to_execute, bets_calculated_this_period,
                   advanced, pricings, last_eval, settle_log, settled,
                   funds_at_start>>

\* Game records for runs with failing collaborators: the two of Games and a
\* game whose winner odds are not a number.
FaultGames == Games \cup { Game("A", "B", Text, Odds(-200)) }

\* Entry to run_explicit: any mapping of at most MaxGames games of
\* FaultGames over keys in increasing order.
InitFaults ==
    /\ \E keys \in { k \in KeyOrders : Increasing(k) }, n \in 0..MaxGames :
         \E flat \in [1..n -> FaultGames], asg \in [1..n -> 1..Len(keys)] :
            /\ NonDecreasing(asg)
            /\ data_keys = prepare_data(keys)
            /\ data_games = [k \in Range(keys) |-> Block(flat, asg, PosOf(keys, k), 1)]
    /\ InitRun

NextFaults ==
    \/ StartPeriod
    \/ Finish
    \/ SkipGame
    \/ EvaluateGameFaulty
    \/ PredictRaises
    \/ EvaluateDone
    \/ DryRun
    \/ ExecuteBet
    \/ ExecuteBetRaises
    \/ ExecuteDone
    \/ UpdateArena
    \/ UpdateArenaRaises

\* run_explicit with collaborators that may raise.
SpecFaults == InitFaults /\ [][NextFaults]_vars

IsSuffix(a, b) ==
    Len(a) <= Len(b) /\ \A i \in DOMAIN a : a[i] = b[Len(b) - Len(a) + i]

\* The strategy.evaluate calls the latest pass made for the label.
EvaluateCalls(label) ==
    SelectSeq(last_eval.calls, LAMBDA c : c.fn = "evaluate" /\ c.a = label)

\* The bets the latest pass added on the label.
BetsOn(label) == SelectSeq(last_eval.bets, LAMBDA b : b.label = label)

\* In the latest pass the side sized with odds o for the label was handled
\* on its own: strategy.evaluate was called once if the odds convert and not
\* at all otherwise, and the side has a bet exactly when the call returned a
\* fraction > 0.
SideOnItsOwn(label, o) ==
    /\ Len(EvaluateCalls(label)) = (IF SideHasOdds(o) /\ Converts(o) THEN 1 ELSE 0)
    /\ Len(BetsOn(label)) =
          (IF /\ EvaluateCalls(label) # <<>>
              /\ EvaluateCalls(label)[1].ok
              /\ RLt(Zero, EvaluateCalls(label)[1].ret)
           THEN 1 ELSE 0)

\* The latest pass priced its game: calculate_probabilities returned.
PassPriced ==
    /\ last_eval.game # 0
    /\ last_eval.calls # <<>>
    /\ last_eval.calls[1].ok

\* C11: when american_to_decimal or strategy.evaluate raises for one side of
\* a game, the run does not stop: each side of the game is still handled on
\* its own (the other side is evaluated and keeps its bet), the bets of the
\* earlier games are kept, and the loop goes on to the next game.
C11_SideFailureContained ==
    PassPriced =>
        LET g == next_period_games[last_eval.game]
        IN  /\ pc = "evaluate"
            /\ gi = last_eval.game + 1
            /\ SideOnItsOwn(g.winner, g.winner_odds)
            /\ SideOnItsOwn(g.loser, g.loser_odds)
            /\ IsSuffix(last_eval.bets, bets_calculated_this_period)
            /\ Len(bets_calculated_this_period) >= Len(last_eval.bets)

\* The side of the latest pass sized with odds o for the label raised.
SideFailed(label, o) ==
    \/ SideHasOdds(o) /\ ~Converts(o)
    \/ EvaluateCalls(label) # <<>> /\ ~EvaluateCalls(label)[1].ok

\* The winner side of the second game of a batch raised in
\* strategy.evaluate and the loser side of that game got its bet, after the
\* first game had got a bet.
C11_Witness ==
    /\ PassPriced
    /\ last_eval.game = 2
    /\ LET g == next_period_games[2]
       IN  /\ Converts(g.winner_odds)
           /\ SideFailed(g.winner, g.winner_odds)
           /\ BetsOn(g.loser) # <<>>
    /\ Len(bets_calculated_this_period) > Len(last_eval.bets)

\* The latest pass called calculate_probabilities and the call raised.
PredictFailed ==
    /\ last_eval.game # 0
    /\ last_eval.calls # <<>>
    /\ ~last_eval.calls[1].ok

\* C12: when calculate_probabilities (arena.expected_score) raises for a
\* game, the failure stays with that game: the game gets no bet, the loop
\* goes on to the next game and the run does not stop.
C12_PredictFailureContained ==
    PredictFailed =>
        /\ last_eval.bets = <<>>
        /\ pc = "evaluate"
        /\ gi = last_eval.game + 1

\* What the code does: the error leaves _evaluate_bets_for_next_period and
\* run_explicit; the run ends at the game, before this iteration settles a
\* bet or updates the arena.
C12_PredictFailureEndsRun ==
    PredictFailed =>
        /\ pc = "raised"
        /\ gi = last_eval.game
        /\ settle_log = <<>>
        /\ \A i \in DOMAIN calls : calls[i] \in {"expected_score", "evaluate"}

\* A ledger call of the current batch raised.
LedgerFailed == \E k \in DOMAIN settle_log : ~settle_log[k].ok

Last(seq) == seq[Len(seq)]

\* C13: when win_bet / lose_bet raises for a bet, the error is caught: the
\* bets of the batch are all handled, each once and in their order, the run
\* stops at no ledger call, and the arena update of the period follows.
C13_LedgerFailureContained ==
    /\ \A k \in DOMAIN settle_log :
          settle_log[k].bet = current_period_bets_to_execute[k]
    /\ pc = "execute" => bi = Len(settle_log) + 1
    /\ (LedgerFailed /\ pc # "execute") =>
          Len(settle_log) = Len(current_period_bets_to_execute)
    /\ pc = "raised" => Last(calls) \in {"expected_score", "tournament"}
    /\ (LedgerFailed /\ pc = "loop" /\ HasMatchups(Matchups(games))) =>
          /\ Last(calls) = "tournament"
          /\ Last(tournament_calls) = Matchups(games)

\* The ledger call of the first bet of a batch raised, the second bet was
\* placed after it and the arena was updated.
C13_Witness ==
    /\ Len(settle_log) >= 2
    /\ ~settle_log[1].ok
    /\ settle_log[2].ok
    /\ IsLedgerCall(settle_log[2].fn)
    /\ pc = "loop"
    /\ Last(calls) = "tournament"

\* An arena.tournament call raised: it was made and did not update the arena.
TournamentFailed == Len(tournament_calls) > Len(advanced)

\* The balance the settlements of the current iteration leave.
BalanceSettled ==
    IF settle_log = <<>> THEN funds_at_start ELSE Last(settle_log).after

\* C14: when arena.tournament raises in period p the run ends there: the
\* error is not caught, period p is the last one visited, the bets this
\* iteration computed are not carried, the balance is the one the
\* settlements up to period p left, and no step follows.
C14_AdvanceFailureEndsRun ==
    /\ [](TournamentFailed =>
            /\ pc = "raised"
            /\ Last(calls) = "tournament"
            /\ Last(tournament_calls) = Matchups(games)
            /\ idx = Len(visited)
            /\ Last(visited) = week_no
            /\ bets_calculated_prev_period = current_period_bets_to_execute
            /\ total_funds = BalanceSettled)
    /\ [][pc # "raised"]_vars

\* arena.tournament raised in a period that had settled a bet, with periods
\* left to visit.
C14_Witness ==
    /\ TournamentFailed
    /\ pc = "raised"
    /\ \E k \in DOMAIN settle_log : IsLedgerCall(settle_log[k].fn) /\ settle_log[k].ok
    /\ idx < Len(data_keys)

\* The period being processed, or just processed, has an empty game list.
InEmptyPeriod == idx > 0 /\ games = <<>>

\* What holds of every period, empty or not, and of an empty one: it is part
\* of the visiting order, it makes no arena.tournament call, and in a betting
\* period the bets carried into it are all handed to settlement.
EmptyPeriodCommon ==
    /\ Last(visited) = week_no
    /\ \A i \in DOMAIN calls : calls[i] # "tournament"
    /\ IsPrefix(tournament_calls, Batches(data_keys))
    /\ (ExecuteOver /\ is_betting_period(week_no, period_to_start_betting)) =>
          /\ Len(settle_log) = Len(current_period_bets_to_execute)
          /\ \A k \in DOMAIN settle_log :
                settle_log[k].bet = current_period_bets_to_execute[k]

\* C15 as claimed: processing a period with an empty game list updates the
\* arena with nothing and creates no candidate bets, while the bets carried
\* into it are still settled and the period counts in the visiting order.
C15_EmptyPeriodIdle ==
    InEmptyPeriod =>
        /\ EmptyPeriodCommon
        /\ bets_calculated_this_period = <<>>

\* The bets the run holds or has settled in this iteration.
BetsAround ==
    Range(bets_calculated_prev_period) \cup Range(current_period_bets_to_execute)
        \cup Range(bets_calculated_this_period)
        \cup { settle_log[k].bet : k \in DOMAIN settle_log }

\* C15 amended: processing a period with an empty game list makes no
\* arena.tournament call, the bets carried into it are still settled in a
\* betting period, and the period counts in the visiting order; the bets
\* created while it is processed price the games of the next period key, and
\* no bet ever prices a game of a period with an empty game list.
C15_EmptyPeriodNoOwnWagers ==
    /\ InEmptyPeriod =>
          /\ EmptyPeriodCommon
          /\ \A i \in DOMAIN bets_calculated_this_period :
                bets_calculated_this_period[i].period = week_no + 1
    /\ \A b \in BetsAround : DataGet(b.period) # <<>>

\* An empty betting period, on a mapping in increasing key order, that is
\* over and has created bets on the games of the next period.
C15_Witness ==
    /\ InEmptyPeriod
    /\ Increasing(data_keys)
    /\ pc = "loop"
    /\ is_betting_period(week_no, period_to_start_betting)
    /\ bets_calculated_this_period # <<>>

\* run_explicit as a sequential program: it always takes its next step.
SpecLive == Init /\ [][Next]_vars /\ WF_vars(Next)

\* C16: run_explicit returns, and when it has returned it has made one
\* iteration for each key of the mapping, the balance of the bankroll it
\* returns is the one the last settlement left, and the bets computed in the
\* last iteration were handed to no settlement.
C16_ReturnsAfterOneIterationPerKey ==
    /\ <>(pc = "done")
    /\ [](pc = "done" =>
            /\ idx = Cardinality(DOMAIN data_games)
            /\ Len(visited) = Cardinality(DOMAIN data_games)
            /\ Range(visited) = DOMAIN data_games
            /\ total_funds = BalanceSettled
            /\ \A i \in DOMAIN settled :
                  /\ settled[i].iter < idx
                  /\ settled[i].at_iter <= idx
            /\ \A i \in DOMAIN bets_calculated_prev_period :
                  bets_calculated_prev_period[i].iter = idx)

\* The run has returned after three periods, it settled bets on the way and
\* the bets of its last iteration are left unsettled.
C16_Witness ==
    /\ pc = "done"
    /\ Len(visited) = Cardinality(PeriodKeys)
    /\ settled # <<>>
    /\ bets_calculated_prev_period # <<>>

\* ------------------------------------------------------ the run, run twice
\* Deterministic arenas: expected_score before and after the first
\* tournament call.
PredictTables == { << <<2, 5>>, <<3, 5>> >>, << <<3, 5>>, <<3, 5>> >> }

\* Deterministic strategies: the fraction for a probability above one half
\* and the fraction for any other probability.
StakeTable(hi, lo) == [p \in Probabilities |-> IF RLt(<<1, 2>>, p) THEN hi ELSE lo]
StakeTables == { StakeTable(<<1, 2>>, <<1, 2>>), StakeTable(<<1, 2>>, Zero) }

FixedOracles == { Fixed(t, f) : t \in PredictTables, f \in StakeTables }

\* Entry to run_explicit with deterministic collaborators: any mapping of at
\* most MaxGames games over distinct keys of PeriodKeys, in any key order.
InitTwice ==
    /\ \E keys \in KeyOrders, n \in 0..MaxGames :
         \E flat \in [1..n -> Games], asg \in [1..n -> 1..Len(keys)] :
            /\ NonDecreasing(asg)
            /\ data_keys = prepare_data(keys)
            /\ data_games = [k \in Range(keys) |-> Block(flat, asg, PosOf(keys, k), 1)]
    /\ period_to_start_betting \in Thresholds
    /\ percent_bettable \in BettableShares
    /\ total_funds = InitialFunds
    /\ funds_at_start = InitialFunds
    /\ oracle \in FixedOracles
    /\ earlier_runs = <<>>
    /\ InitLocals

CarriedOnEntryKept(prev) == prev

\* `bets_calculated_prev_period = []` on entry to run_explicit, whatever an
\* earlier run left.
CarriedOnEntry(prev) == <<>>

\* What a run hands back and what it did to the arena.
Outcome == [funds |-> total_funds, tournament_calls |-> tournament_calls]

\* run_explicit is called a second time with the same data, the same
\* threshold, a bankroll in the starting state and collaborators in their
\* starting state.
RunAgain ==
    /\ pc = "done"
    /\ earlier_runs = <<>>
    /\ earlier_runs' = <<Outcome>>
    /\ total_funds' = InitialFunds
    /\ funds_at_start' = InitialFunds
    /\ tournament_calls' = <<>>
    /\ advanced' = <<>>
    /\ bets_calculated_prev_period' = CarriedOnEntry(bets_calculated_prev_period)
    /\ current_period_bets_to_execute' = <<>>
    /\ bets_calculated_this_period' = <<>>
    /\ pc' = "loop"
    /\ idx' = 0
    /\ week_no' = 0
    /\ gi' = 1
    /\ bi' = 1
    /\ visited' = <<>>
    /\ pricings' = {}
    /\ calls' = <<>>
    /\ last_eval' = NoEval
    /\ settle_log' = <<>>
    /\ settled' = <<>>
    /\ modes' = <<>>
    /\ UNCHANGED inputs

NextTwice ==
    \/ StartPeriod
    \/ Finish
    \/ SkipGame
    \/ EvaluateGame
    \/ EvaluateDone
    \/ DryRun
    \/ ExecuteBet
    \/ ExecuteDone
    \/ UpdateArena
    \/ RunAgain

\* Two runs of run_explicit, one after the other, over the same input and
\* with deterministic collaborators.
SpecTwice == InitTwice /\ [][NextTwice]_vars

SampleData ==
    (1 :> << Game("A", "B", NoKey, NoKey) >>)
    @@ (2 :> << Game("C", "B", Odds(150), Odds(-170)) >>)
    @@ (3 :> << Game("A", "C", Odds(-200), Odds(180)) >>)
    @@ (4 :> << >>)

\* The data of test_run_explicit_no_odds.
NoOddsData ==
    (1 :> << >>) @@ (2 :> << Game("A", "B", NoKey, NoKey) >>)

\* The thresholds of the two tests and the default of run_explicit.
TestThresholds == {0, 1, 3}

\* mock_bankroll: total_funds 1000, percent_bettable 1.0.
MockFunds == <<1000, 1>>

\* mock_strategy: evaluate returns 0.1 for every probability.
MockStake == StakeTable(<<1, 10>>, <<1, 10>>)

\* Entry to run_explicit in the tests: one of the two mappings, keys in
\* increasing order, the mock bankroll, the mock strategy and a
\* deterministic arena.
InitTests ==
    /\ \E d \in {SampleData, NoOddsData} :
          /\ data_keys = prepare_data(SortedSeq(DOMAIN d))
          /\ data_games = d
    /\ period_to_start_betting \in TestThresholds
    /\ percent_bettable = One
    /\ total_funds = MockFunds
    /\ funds_at_start = MockFunds
    /\ oracle \in { Fixed(t, MockStake) : t \in PredictTables }
    /\ earlier_runs = <<>>
    /\ InitLocals

\* run_explicit as the test suite calls it.
SpecTests == InitTests /\ [][Next]_vars

\* The reference scenario: the sample data with warm-up threshold 1.
Reference == data_games = SampleData /\ period_to_start_betting = 1

\* The collaborator calls of each iteration of the reference scenario.
ReferenceCalls ==
    << <<"expected_score", "evaluate", "evaluate", "tournament">>,
       <<"expected_score", "evaluate", "evaluate", "win_bet", "lose_bet", "tournament">>,
       <<"win_bet", "lose_bet", "tournament">>,
       << >> >>

\* A ledger call as the reference scenario lists it.
Applied(label, fn, stake, profit) ==
    [label |-> label, fn |-> fn, stake |-> stake, profit |-> profit]

\* The ledger calls of each iteration of the reference scenario.
ReferenceLedger ==
    << << >>,
       << Applied("C", "win_bet", <<100, 1>>, <<3, 2>>),
          Applied("B", "lose_bet", <<115, 1>>, Zero) >>,
       << Applied("A", "win_bet", <<207, 2>>, <<1, 2>>),
          Applied("C", "lose_bet", <<4347, 40>>, Zero) >>,
       << >> >>

\* The ledger calls of the current iteration.
LedgerCalls ==
    [k \in DOMAIN settle_log |->
        Applied(settle_log[k].bet.label, settle_log[k].fn,
                settle_log[k].arg_amount, settle_log[k].arg_payoff)]

\* C18: in the reference scenario each iteration, once over, has made the
\* collaborator calls listed (four strategy.evaluate calls and three
\* arena.tournament calls in all, no ledger call in period 1) and the ledger
\* calls listed, with their stakes and profit multipliers; the run ends with
\* the batches [(A,B)], [(C,B)], [(A,C)] and the balance 978.075.
C18_ReferenceScenario ==
    Reference =>
        /\ (pc \in {"loop", "done"} /\ idx > 0) =>
              /\ calls = ReferenceCalls[idx]
              /\ LedgerCalls = ReferenceLedger[idx]
        /\ pc = "done" =>
              /\ idx = 4
              /\ tournament_calls = << << <<"A", "B">> >>, << <<"C", "B">> >>,
                                       << <<"A", "C">> >> >>
              /\ total_funds = <<39123, 40>>

\* The reference scenario has run to its end.
C18_Witness ==
    /\ Reference
    /\ pc = "done"
    /\ total_funds = <<39123, 40>>
    /\ Len(tournament_calls) = 3

\* --------------------------------------------------- the odds conversion
\* American odds that games carry: favourites and underdogs, even money on
\* both sides of zero, zero and the values next to it.
OddsValues == {-200, -170, -100, -1, 0, 1, 100, 150, 180}

\* Entry to run_explicit for the conversion: an empty period 1, a period 2
\* with one game carrying any odds of OddsValues on each side, and a period 3
\* with a game without odds.
InitOdds ==
    /\ \E x, y \in OddsValues :
          /\ data_keys = prepare_data(<<1, 2, 3>>)
          /\ data_games = (1 :> << >>)
                          @@ (2 :> << Game("A", "B", Odds(x), Odds(y)) >>)
                          @@ (3 :> << Game("B", "A", NoKey, NoKey) >>)
    /\ InitRun

\* run_explicit over games with any odds of OddsValues.
SpecOdds == InitOdds /\ [][Next]_vars

\* d = <<n, m>> is the decimal payout multiplier of the American odds x:
\* x/100 + 1 for x >= 0 and 100/|x| + 1 for x < 0, in integers.
IsDecimalOf(x, d) ==
    /\ d[2] > 0
    /\ IF x >= 0
       THEN 100 * d[1] = (x + 100) * d[2]
       ELSE (-x) * d[1] = (100 - x) * d[2]

\* C19: the profit multiplier of every bet is american_to_decimal of the
\* odds of its side minus one, where american_to_decimal is odds/100 + 1 for
\* odds >= 0 and 100/|odds| + 1 for odds < 0; the multiplier is at least 1,
\* so the profit multiplier is not negative; 150 gives 2.5, -200 gives 1.5,
\* 180 gives 2.8 and -170 gives 27/17.
C19_DecimalOdds ==
    /\ \A b \in BetsAround :
          LET o == SideOdds(GameOf(b), b.label)
              d == RAdd(b.payoff, One)
          IN  /\ d = american_to_decimal(o.v)
              /\ IsDecimalOf(o.v, d)
              /\ d[1] >= d[2]
              /\ RLe(Zero, b.payoff)
    /\ american_to_decimal(150) = <<5, 2>>
    /\ american_to_decimal(-200) = <<3, 2>>
    /\ american_to_decimal(180) = <<14, 5>>
    /\ american_to_decimal(-170) = <<27, 17>>

\* A game priced with negative odds on one side and odds >= 0 on the other,
\* with a bet on each side.
C19_Witness ==
    /\ \E b \in Range(last_eval.bets) :
          SideOdds(GameOf(b), b.label).v < 0
    /\ \E b \in Range(last_eval.bets) :
          SideOdds(GameOf(b), b.label).v >= 0

\* -------------------------------------------------------- run_and_project
\* The statements of the body of the loop of run_and_project, in program
\* order: update the arena, then project the games of the next period.
ProjectBodyProjectFirst == <<"p_project", "p_advance">>

ProjectBody == <<"p_advance", "p_project">>

\* The step that follows step s; back to the loop head after the last one.
ProjectNext(s) ==
    LET i == CHOOSE j \in DOMAIN ProjectBody : ProjectBody[j] = s
    IN  IF i = Len(ProjectBody) THEN "p_loop" ELSE ProjectBody[i + 1]

\* run_and_project is called on the data run_explicit has just processed,
\* with an arena in its starting state.
StartProjection ==
    /\ pc = "done"
    /\ earlier_runs = <<>>
    /\ earlier_runs' = <<Outcome>>
    /\ tournament_calls' = <<>>
    /\ advanced' = <<>>
    /\ bets_calculated_prev_period' = <<>>
    /\ current_period_bets_to_execute' = <<>>
    /\ bets_calculated_this_period' = <<>>
    /\ pc' = "p_loop"
    /\ idx' = 0
    /\ week_no' = 0
    /\ gi' = 1
    /\ bi' = 1
    /\ visited' = <<>>
    /\ pricings' = {}
    /\ calls' = <<>>
    /\ last_eval' = NoEval
    /\ settle_log' = <<>>
    /\ settled' = <<>>
    /\ modes' = <<>>
    /\ UNCHANGED <<inputs, total_funds, funds_at_start>>

\* for week_no, games in data.items(): take the next key.
ProjectPeriod ==
    /\ pc = "p_loop"
    /\ idx < Len(data_keys)
    /\ idx' = idx + 1
    /\ week_no' = data_keys[idx + 1]
    /\ visited' = Append(visited, data_keys[idx + 1])
    /\ gi' = 1
    /\ calls' = <<>>
    /\ last_eval' = NoEval
    /\ pc' = ProjectBody[1]
    /\ UNCHANGED <<inputs, earlier_runs, modes, total_funds, funds_at_start, bi,
                   bets_calculated_prev_period, current_period_bets_to_execute,
                   bets_calculated_this_period, tournament_calls, advanced,
                   pricings, settle_log, settled>>

\* `if matchups: self._arena.tournament(matchups)`
ProjectAdvance ==
    /\ pc = "p_advance"
    /\ LET matchups == Matchups(games)
       IN  IF HasMatchups(matchups)
           THEN /\ tournament_calls' = Append(tournament_calls, matchups)
                /\ advanced' = Append(advanced, week_no)
                /\ calls' = Append(calls, "tournament")
           ELSE UNCHANGED <<tournament_calls, advanced, calls>>
    /\ pc' = ProjectNext("p_advance")
    /\ UNCHANGED <<inputs, earlier_runs, modes, total_funds, funds_at_start, idx, week_no,
                   visited, gi, bi, bets_calculated_prev_period,
                   current_period_bets_to_execute, bets_calculated_this_period,
                   pricings, last_eval, settle_log, settled>>

\* One "Predicted X over Y: p" line of the log.
Line(label, over, p) == [label |-> label, over |-> over, p |-> p]

PredictedTieToWinner(game, prob_win) ==
    IF RLe(<<1, 2>>, prob_win)
    THEN <<Line(game.winner, game.loser, prob_win)>>
    ELSE <<Line(game.loser, game.winner, RSub(One, prob_win))>>

\* The lines logged for a game: the winner when prob_win > 0.5, the loser
\* with 1 - prob_win otherwise.
Predicted(game, prob_win) ==
    IF RLt(<<1, 2>>, prob_win)
    THEN <<Line(game.winner, game.loser, prob_win)>>
    ELSE <<Line(game.loser, game.winner, RSub(One, prob_win))>>

\* One pass of `for game in next_period_games` of run_and_project.
ProjectGame ==
    /\ pc = "p_project"
    /\ gi <= Len(next_period_games)
    /\ \E prob_win \in PredictAnswers :
          LET game == next_period_games[gi]
          IN  last_eval' = [game |-> gi,
                            calls |-> <<Call("expected_score", game.winner,
                                             game.loser, Zero, TRUE, prob_win)>>,
                            bets |-> <<>>,
                            logged |-> Predicted(game, prob_win)]
    /\ calls' = Append(calls, "expected_score")
    /\ pricings' = pricings \cup { [period |-> week_no + 1, seen |-> Range(advanced)] }
    /\ gi' = gi + 1
    /\ UNCHANGED <<inputs, earlier_runs, modes, total_funds, funds_at_start, pc, idx,
                   week_no, visited, bi, bets_calculated_prev_period,
                   current_period_bets_to_execute, bets_calculated_this_period,
                   tournament_calls, advanced, settle_log, settled>>

\* The projection loop of the period is over.
ProjectDone ==
    /\ pc = "p_project"
    /\ gi > Len(next_period_games)
    /\ pc' = ProjectNext("p_project")
    /\ UNCHANGED <<inputs, earlier_runs, modes, total_funds, funds_at_start, idx, week_no,
                   visited, gi, bi, bets_calculated_prev_period,
                   current_period_bets_to_execute, bets_calculated_this_period,
                   tournament_calls, advanced, pricings, calls, last_eval,
                   settle_log, settled>>

\* The loop of run_and_project is exhausted.
ProjectFinish ==
    /\ pc = "p_loop"
    /\ idx = Len(data_keys)
    /\ pc' = "p_done"
    /\ UNCHANGED <<inputs, earlier_runs, modes, total_funds, funds_at_start, idx, week_no,
                   visited, gi, bi, bets_calculated_prev_period,
                   current_period_bets_to_execute, bets_calculated_this_period,
                   tournament_calls, advanced, pricings, calls, last_eval,
                   settle_log, settled>>

NextProject ==
    \/ StartPeriod
    \/ Finish
    \/ SkipGame
    \/ EvaluateGame
    \/ EvaluateDone
    \/ DryRun
    \/ ExecuteBet
    \/ ExecuteDone
    \/ UpdateArena
    \/ StartProjection
    \/ ProjectPeriod
    \/ ProjectAdvance
    \/ ProjectGame
    \/ ProjectDone
    \/ ProjectFinish

\* run_explicit, then run_and_project on the same data.
SpecProject == InitTwice /\ [][NextProject]_vars

Projecting == pc \in {"p_loop", "p_advance", "p_project", "p_done"}

\* The calls of a whole iteration of run_and_project: the arena update when
\* the period has games, then one expected_score call for each game of the
\* next period key.
ProjectionCalls ==
    (IF games # <<>> THEN <<"tournament">> ELSE <<>>)
        \o [i \in 1..Len(next_period_games) |-> "expected_score"]

\* C20: in each iteration of run_and_project the arena is updated first,
\* with the pairs of the period if it has any, and then expected_score is
\* called once for each game of the next period key, so each projection is
\* made by an arena that has seen the current period; strategy and bankroll
\* are not called; the arena.tournament calls are those run_explicit made on
\* the same data.
C20_ProjectionAdvancesFirst ==
    (Projecting /\ idx > 0) =>
        /\ IsPrefix(calls, ProjectionCalls)
        /\ pc = "p_loop" => calls = ProjectionCalls
        /\ pc = "p_project" => Len(calls) = Len(ProjectionCalls) - Len(next_period_games) + gi - 1
        /\ \A r \in pricings :
              /\ r.period - 1 \in Range(visited)
              /\ HasGames(r.period - 1) => (r.period - 1) \in r.seen
        /\ total_funds = earlier_runs[1].funds
        /\ settle_log = <<>>
        /\ BetsAround = {}
        /\ IsPrefix(tournament_calls, earlier_runs[1].tournament_calls)
        /\ pc = "p_done" => tournament_calls = earlier_runs[1].tournament_calls

\* run_and_project is over: it updated the arena more than once and
\* projected a game after the update of the period before it.
C20_Witness ==
    /\ pc = "p_done"
    /\ Len(tournament_calls) >= 2
    /\ \E r \in pricings : (r.period - 1) \in r.seen

\* ------------------------------------------------- who touches the ledger
\* The fraction of every bet of the latest evaluation pass is what
\* strategy.evaluate returned for the bet's side, and the only argument of
\* that call was the probability of the side.
FractionsAsReturned(e) ==
    \A i \in DOMAIN e.bets :
        \E j \in DOMAIN e.calls :
            /\ e.calls[j].fn = "evaluate"
            /\ e.calls[j].a = e.bets[i].label
            /\ e.calls[j].ok
            /\ e.calls[j].ret = e.bets[i].fraction
            /\ e.calls[j].x \in {e.calls[1].ret, RSub(One, e.calls[1].ret)}

\* One step that changes the balance handles exactly one bet, and that bet
\* is placed: the balance goes from the entry's `before` to its `after`.
OneSettledWager ==
    /\ pc = "execute"
    /\ bi' = bi + 1
    /\ Len(settle_log') = Len(settle_log) + 1
    /\ Len(settled') = Len(settled) + 1
    /\ LET e == settle_log'[Len(settle_log')]
       IN  /\ IsPlaced(e)
           /\ e.bet = current_period_bets_to_execute[bi]
           /\ e.before = total_funds
           /\ e.after = total_funds'

\* C21: the evaluation of the bets and the update of the arena leave
\* bankroll.total_funds unchanged, the fraction of a calculated bet is the
\* value strategy.evaluate returned for the probability alone, whatever the
\* balance, and every change of the balance is the settlement of exactly one
\* bet.
C21_LedgerOnlySettled ==
    [][ /\ pc \in {"loop", "evaluate", "advance"} => total_funds' = total_funds
        /\ (pc = "evaluate" /\ pc' = "evaluate") => FractionsAsReturned(last_eval')
        /\ total_funds' # total_funds => OneSettledWager ]_vars

\* A bet is calculated after the balance has changed, by the pass that has
\* just priced a game.
C21_Witness ==
    /\ pc = "evaluate"
    /\ last_eval.bets # <<>>
    /\ total_funds # InitialFunds
    /\ settled # <<>>

\* ------------------------------------------------- dry runs, then betting
\* C22: once an iteration of run_explicit has taken the betting branch, no
\* later iteration of the run takes the dry-run branch.
C22_NoReturnToWarmUp ==
    \A i, j \in DOMAIN modes :
        (i < j /\ modes[i] = "betting") => modes[j] = "betting"

\* The same on mappings whose keys iterate in increasing order.
C22_NoReturnToWarmUpIfSorted == Increasing(data_keys) => C22_NoReturnToWarmUp

\* A run over increasing keys that went from dry runs to betting.
C22_WitnessIfSorted ==
    /\ Increasing(data_keys)
    /\ \E i, j \in DOMAIN modes : i < j /\ modes[i] = "dry" /\ modes[j] = "betting"

\* ------------------------------------------------ the pass of a full game
\* A game record with both labels and American odds on both sides.
FullGame(g) ==
    /\ ~LabelMissing(g)
    /\ g.winner_odds.st = "val"
    /\ g.loser_odds.st = "val"

\* The bet dict of one side as the claim describes it.
IsSideBet(b, label, opponent, fraction, o, actual) ==
    /\ b.label = label
    /\ b.opponent = opponent
    /\ b.fraction = fraction
    /\ b.payoff = Profit(o)
    /\ b.loss = One
    /\ b.actual_outcome = actual

\* C23: for a game with both labels and both odds, the pass makes one
\* expected_score(winner, loser) call returning p, then
\* strategy.evaluate(p) for the winner and strategy.evaluate(1 - p) for the
\* loser, and appends a bet for a side only if its fraction is > 0: no bet,
\* one bet or two, the winner's bet (actual_outcome True, payoff from
\* winner_odds) before the loser's (actual_outcome False, payoff from
\* loser_odds).
C23_FullGamePass ==
    (pc = "evaluate" /\ last_eval.game # 0
        /\ FullGame(next_period_games[last_eval.game])) =>
        LET g == next_period_games[last_eval.game]
            cs == last_eval.calls
            bs == last_eval.bets
        IN  /\ Len(cs) = 3
            /\ cs[1].fn = "expected_score" /\ cs[1].a = g.winner /\ cs[1].b = g.loser
            /\ cs[2].fn = "evaluate" /\ cs[2].a = g.winner /\ cs[2].x = cs[1].ret
            /\ cs[3].fn = "evaluate" /\ cs[3].a = g.loser
            /\ cs[3].x = RSub(One, cs[1].ret)
            /\ LET w == RLt(Zero, cs[2].ret)
                   l == RLt(Zero, cs[3].ret)
               IN  /\ Len(bs) = (IF w THEN 1 ELSE 0) + (IF l THEN 1 ELSE 0)
                   /\ w => IsSideBet(bs[1], g.winner, g.loser, cs[2].ret,
                                     g.winner_odds, TRUE)
                   /\ l => IsSideBet(bs[Len(bs)], g.loser, g.winner, cs[3].ret,
                                     g.loser_odds, FALSE)

\* A pass over a full game that appended both bets, and the one before it
\* over a full game too.
C23_Witness ==
    /\ pc = "evaluate"
    /\ last_eval.game = 2
    /\ FullGame(next_period_games[1])
    /\ FullGame(next_period_games[2])
    /\ Len(last_eval.bets) = 2
    /\ Len(bets_calculated_this_period) = 3

\* ------------------------------------------------ the projected winner
\* Entry to run_and_project: any mapping of at most MaxGames games over
\* distinct keys, in any key order, and an arena that answers with any
\* probability.  run_and_project takes no strategy and no bankroll.
InitProjection ==
    /\ \E keys \in KeyOrders, n \in 0..MaxGames :
         \E flat \in [1..n -> Games], asg \in [1..n -> 1..Len(keys)] :
            /\ NonDecreasing(asg)
            /\ data_keys = prepare_data(keys)
            /\ data_games = [k \in Range(keys) |-> Block(flat, asg, PosOf(keys, k), 1)]
    /\ period_to_start_betting = 0
    /\ percent_bettable \in BettableShares
    /\ total_funds = InitialFunds
    /\ funds_at_start = InitialFunds
    /\ oracle = Free
    /\ earlier_runs = <<>>
    /\ pc = "p_loop"
    /\ idx = 0
    /\ week_no = 0
    /\ gi = 1
    /\ bi = 1
    /\ bets_calculated_prev_period = <<>>
    /\ current_period_bets_to_execute = <<>>
    /\ bets_calculated_this_period = <<>>
    /\ tournament_calls = <<>>
    /\ visited = <<>>
    /\ advanced = <<>>
    /\ pricings = {}
    /\ calls = <<>>
    /\ last_eval = NoEval
    /\ settle_log = <<>>
    /\ settled = <<>>
    /\ modes = <<>>

NextProjection ==
    \/ ProjectPeriod
    \/ ProjectAdvance
    \/ ProjectGame
    \/ ProjectDone
    \/ ProjectFinish

\* run_and_project on its own.
SpecProjection == InitProjection /\ [][NextProjection]_vars

Half == <<1, 2>>

\* C24: each pass of the projection loop calls expected_score(winner,
\* loser) once and logs one line: the winner with p when p > 0.5, the loser
\* with 1 - p otherwise; the logged probability is at least 0.5 and a p of
\* exactly 0.5 is logged for the loser.
C24_ProjectedWinner ==
    (pc = "p_project" /\ last_eval.game # 0) =>
        LET g == next_period_games[last_eval.game]
            cs == last_eval.calls
            p == last_eval.calls[1].ret
            ls == last_eval.logged
        IN  /\ Len(cs) = 1
            /\ cs[1].fn = "expected_score" /\ cs[1].a = g.winner /\ cs[1].b = g.loser
            /\ Len(ls) = 1
            /\ RLt(Half, p) => ls[1] = Line(g.winner, g.loser, p)
            /\ RLe(p, Half) => ls[1] = Line(g.loser, g.winner, RSub(One, p))
            /\ RLe(Half, ls[1].p)
            /\ p = Half => ls[1].label = g.loser

\* The projection of a game for which expected_score returned exactly 0.5.
C24_Witness ==
    /\ pc = "p_project"
    /\ last_eval.game # 0
    /\ last_eval.calls[1].ret = Half
    /\ last_eval.logged[1].p = Half

\* ------------------------------------------------------------- solvency
\* Starting balances, bettable shares in (0, 1] and fractions up to the
\* whole of what is available and beyond it.
StartingFunds == { Zero, <<100, 1>> }
SharesUpToOne == { <<1, 2>>, One }
FractionsUpToAll == { Zero, One, <<3, 2>> }

\* Games with positive and negative American odds on the winner, and odds
\* of zero.
SolvencyGames == Games \cup { Game("B", "A", Odds(-200), Odds(0)) }

\* Entry to run_explicit: any mapping of at most MaxGames games of
\* SolvencyGames over keys in increasing order, with a bankroll of the test
\* suite holding any of the starting balances and shares.
InitSolvency ==
    /\ \E keys \in { k \in KeyOrders : Increasing(k) }, n \in 0..MaxGames :
         \E flat \in [1..n -> SolvencyGames], asg \in [1..n -> 1..Len(keys)] :
            /\ NonDecreasing(asg)
            /\ data_keys = prepare_data(keys)
            /\ data_games = [k \in Range(keys) |-> Block(flat, asg, PosOf(keys, k), 1)]
    /\ period_to_start_betting \in Thresholds
    /\ percent_bettable \in SharesUpToOne
    /\ total_funds \in StartingFunds
    /\ funds_at_start = total_funds
    /\ oracle = Free
    /\ earlier_runs = <<>>
    /\ InitLocals

\* strategy.evaluate returns any of these fractions.
AllInAnswers == { Answer(f) : f \in FractionsUpToAll }

\* The pass that prices a game, with a strategy that may stake everything.
EvaluateGameAllIn == EvaluateWith(AllInAnswers)

NextSolvency ==
    \/ StartPeriod
    \/ Finish
    \/ SkipGame
    \/ EvaluateGameAllIn
    \/ EvaluateDone
    \/ DryRun
    \/ ExecuteBet
    \/ ExecuteDone
    \/ UpdateArena

SpecSolvency == InitSolvency /\ [][NextSolvency]_vars

\* C25: with a starting balance >= 0, a percent_bettable in (0, 1] and the
\* bankroll of the test suite, the balance is >= 0 after every bet the
\* settlement loop handles, whatever the periods, the odds and the
\* fractions (a fraction above 1 is not placed).
C25_Solvent ==
    /\ RLe(Zero, total_funds)
    /\ \A k \in DOMAIN settle_log :
          /\ RLe(Zero, settle_log[k].after)
          /\ RLt(One, settle_log[k].bet.fraction) => ~IsPlaced(settle_log[k])

\* A batch in which a bet of the whole balance was lost, leaving exactly 0,
\* and a bet with a fraction above 1 was not placed.
C25_Witness ==
    /\ \E k \in DOMAIN settle_log :
          /\ settle_log[k].fn = "lose_bet"
          /\ RLt(Zero, settle_log[k].before)
          /\ settle_log[k].after = Zero
    /\ \E k \in DOMAIN settle_log :
          /\ RLt(One, settle_log[k].bet.fraction)
          /\ RLt(Zero, settle_log[k].before)

\* ------------------------------------------------- periods never priced
Keys == Range(data_keys)

\* A period key whose predecessor is not a key of the mapping: the first
\* period, or a period that follows a gap.
Uncovered(q) == q \in Keys /\ (q - 1) \notin Keys

\* C26: a game of period q is priced only while period q - 1 is processed,
\* so only if q - 1 is a key of the mapping; the games of a key whose
\* predecessor is not a key (the first period, a period after a gap) get no
\* expected_score or strategy.evaluate call and no bet, and no bet on them
\* reaches the bankroll, while their pairs are still passed to
\* arena.tournament.
C26_CoverageGap ==
    /\ \A r \in pricings : (r.period - 1) \in Keys /\ ~Uncovered(r.period)
    /\ (pc = "evaluate" /\ last_eval.calls # <<>>) =>
          /\ week_no \in Keys
          /\ (week_no + 1) \in Keys
          /\ last_eval.game \in DOMAIN data_games[week_no + 1]
    /\ \A b \in BetsAround : ~Uncovered(b.period)
    /\ \A i \in DOMAIN settled : ~Uncovered(settled[i].period)
    /\ (idx > 0 /\ (week_no + 1) \notin Keys) =>
          \A i \in DOMAIN calls : calls[i] \notin {"expected_score", "evaluate"}
    /\ pc = "done" =>
          \A q \in Keys : (Uncovered(q) /\ HasGames(q)) => q \in Range(advanced)

\* A finished run over the keys 1 and 3: period 3 follows a gap, holds a
\* game with odds and was processed as a betting period; its pairs reached
\* the arena and nothing was settled.
C26_Witness ==
    /\ pc = "done"
    /\ Keys = {1, 3}
    /\ \E i \in DOMAIN data_games[3] : GameHasOdds(data_games[3][i])
    /\ \E i \in DOMAIN modes : modes[i] = "betting"
    /\ 3 \in Range(advanced)
    /\ settled = <<>>
    /\ total_funds = InitialFunds

\* ------------------------------------------------ records without a label
\* C27: a game record whose winner or loser label is None is skipped by the
\* evaluator (no collaborator call, no bet, and no bet anywhere prices it),
\* and when its own period is processed the batch passed to
\* arena.tournament holds one pair per game record of the period, in order,
\* the pair of such a record with None in the place of the missing label.
C27_UnlabelledStillAdvanced ==
    /\ (pc = "evaluate" /\ last_eval.game # 0
           /\ LabelMissing(next_period_games[last_eval.game])) =>
          /\ last_eval.calls = <<>>
          /\ last_eval.bets = <<>>
    /\ \A b \in BetsAround : ~LabelMissing(GameOf(b))
    /\ Len(tournament_calls) = Len(advanced)
    /\ \A i \in DOMAIN advanced :
          LET gs == data_games[advanced[i]]
          IN  /\ Len(tournament_calls[i]) = Len(gs)
              /\ \A j \in DOMAIN gs :
                    tournament_calls[i][j] = <<gs[j].winner, gs[j].loser>>

\* A period with a record without a label and a record that got a bet: the
\* evaluator skipped the first, and the batch of the period holds its pair
\* with None.
C27_Witness ==
    /\ pc = "loop"
    /\ week_no = 2
    /\ Len(data_games[2]) = 2
    /\ LabelMissing(data_games[2][1])
    /\ bets_calculated_prev_period = <<>>
    /\ \E b \in Range(current_period_bets_to_execute) : b.game = 2
    /\ tournament_calls # <<>>
    /\ \E j \in DOMAIN Last(tournament_calls) : NoneLabel \in Range(Last(tournament_calls)[j])

====
